---- MODULE Spec2Model ----
(***************************************************************************)
(* A model of src/app/page.tsx: the AIMarketingWizard component.  The      *)
(* state is the component's five useState cells plus the asynchronous      *)
(* handleSend invocations that are suspended on the network.               *)
(*                                                                         *)
(* Text.  A JavaScript string is modelled as a sequence of pieces; a piece *)
(* is either one whitespace character or a chunk of text that neither      *)
(* starts nor ends with whitespace.  The empty string is <<>>,              *)
(* concatenation is \o, trim() strips whitespace pieces from both ends,    *)
(* and includes('not found') looks for the piece "not found".              *)
(*                                                                         *)
(* Not modelled: Message.timestamp (new Date(), read by no code), the      *)
(* scroll effect (lines 62-68) and styling.  The catch block of handleSend *)
(* (lines 166-173) cannot run, because callGeminiAPI catches everything    *)
(* its body throws and returns a string (lines 133-140).                   *)
(***************************************************************************)
EXTENDS Naturals, Sequences, FiniteSets

VARIABLES
    apiKey,        \* line 55
    showApiInput,  \* line 56
    messages,      \* line 57
    input,         \* line 58
    isTyping,      \* line 59
    calls,         \* the handleSend invocations, in the order they started
    gateKey,       \* history: the value of apiKey when the gate closed
    last           \* history: the last event and the state it started from

vars == <<apiKey, showApiInput, messages, input, isTyping, calls, gateKey, last>>

(* ------------------------------ bounds --------------------------------- *)

\* the number of accepted submissions in one behaviour
MaxSends == 2

(* ------------------------------- text ---------------------------------- *)

Whitespace == {" ", "\n", "\t"}

IsSpace(c) == c \in Whitespace

RECURSIVE TrimStart(_)
TrimStart(s) ==
    IF s = <<>> THEN s
    ELSE IF IsSpace(Head(s)) THEN TrimStart(Tail(s)) ELSE s

RECURSIVE TrimEnd(_)
TrimEnd(s) ==
    IF s = <<>> THEN s
    ELSE IF IsSpace(s[Len(s)]) THEN TrimEnd(SubSeq(s, 1, Len(s) - 1)) ELSE s

\* String.prototype.trim
Trim(s) == TrimEnd(TrimStart(s))

\* String.prototype.includes, for a needle that is one piece
Includes(s, piece) == \E i \in 1..Len(s) : s[i] = piece

(* ----------------------------- constants ------------------------------- *)

GEMINI_MODEL == "gemini-2.5-pro"

QUICK_PROMPTS ==
    { <<"Generate a campaign for my SaaS product">>,
      <<"Write LinkedIn post about AI marketing">>,
      <<"Create buyer persona for B2B sales">>,
      <<"Give me a content strategy">>,
      <<"Plan multi-channel campaign">>,
      <<"Optimize my email open rates">> }

greetingMessage ==
    [role |-> "assistant",
     content |-> <<"Hello! I'm your AI Marketing Wizard powered by Google Gemini. I can help you with: ... What would you like to work on today?">>]

systemPrompt == <<"You are an expert AI Marketing Wizard. ... Use emojis sparingly for visual organization.">>

(* ------------------------ what the user can type ------------------------ *)

\* values the credential field can be given (onChange, line 207)
CredentialValues == { <<>>, <<" ">>, <<"VALIDKEY">>, <<" ", "KEY2">> }

\* values the textarea can be given (onChange, line 338)
InputValues ==
    { <<>>, <<" ", "\n">>, <<"hello">>,
      <<" ", "Generate a campaign for my SaaS product">> }

(* ------------------- what the network can answer ----------------------- *)

\* what fetch can reject with (an Error with a message, or some other value)
Thrown ==
    { [isError |-> TRUE, message |-> <<"Failed to fetch">>],
      [isError |-> FALSE, message |-> <<>>] }

\* what response.json() can give: a rejection (valid = FALSE), or a value in
\* which candidates[0].content.parts[0].text and error.message are each
\* present or absent
Bodies ==
    { [valid |-> FALSE, hasText |-> FALSE, text |-> <<>>,
       hasMessage |-> FALSE, message |-> <<>>],
      [valid |-> TRUE, hasText |-> TRUE, text |-> <<"Campaign: ...">>,
       hasMessage |-> FALSE, message |-> <<>>],
      [valid |-> TRUE, hasText |-> FALSE, text |-> <<>>,
       hasMessage |-> TRUE, message |-> <<"model ", "not found">>],
      [valid |-> TRUE, hasText |-> FALSE, text |-> <<>>,
       hasMessage |-> FALSE, message |-> <<>>] }

\* the message of the SyntaxError response.json() rejects with
JsonSyntaxError == [isError |-> TRUE, message |-> <<"Unexpected token">>]

(* --------------------------- callGeminiAPI ----------------------------- *)

\* a variant that replays the transcript in the prompt
Request_WithHistory(userMessage) ==
    [method |-> "POST",
     model |-> GEMINI_MODEL,
     key |-> apiKey,
     text |-> systemPrompt
              \o [k \in 1..Len(messages) |-> messages[k].content]
              \o <<"\n\nUser: ">> \o userMessage \o <<"\n\nAssistant:">>,
     generationConfig |->
        [temperature |-> "0.7", topK |-> 40, topP |-> "0.95", maxOutputTokens |-> 2048]]

\* lines 105-123: the request fetch is given
Request(userMessage) ==
    [method |-> "POST",
     model |-> GEMINI_MODEL,
     key |-> apiKey,
     text |-> systemPrompt \o <<"\n\nUser: ">> \o userMessage \o <<"\n\nAssistant:">>,
     generationConfig |->
        [temperature |-> "0.7", topK |-> 40, topP |-> "0.95", maxOutputTokens |-> 2048]]

\* lines 132 and 139: what every warning starts with (after its warning sign)
WarningPrefix == "Error: "

\* line 139: the end of every warning the catch block builds
CheckKeyHint == "\n\nPlease check your API key and try again. Get your free API key at: https://ai.google.dev/"

\* line 127: the Error thrown for a response that is not ok
ApiError(body) ==
    [isError |-> TRUE,
     message |-> IF body.hasMessage /\ body.message # <<>>
                 THEN body.message ELSE <<"API request failed">>]

\* lines 133-139: the catch block's return value
Caught(error) ==
    LET errorMessage == IF error.isError THEN error.message ELSE <<"Unknown error">>
        modelHint == IF Includes(errorMessage, "not found")
                     THEN <<"\n\nTip: Make sure the model name \"", GEMINI_MODEL,
                            "\" is available for your API key. See the supported models here: https://ai.google.dev/gemini-api/docs/models">>
                     ELSE <<>>
    IN  <<WarningPrefix>> \o errorMessage \o modelHint
        \o <<CheckKeyHint>>

\* line 132: the text for a response with no first text part
EmptyResponse == <<WarningPrefix, "Received empty response from Gemini API.">>

\* lines 125-132 (and 133-139 for what they throw): the string callGeminiAPI
\* returns once the response's body has settled
Answer(ok, body) ==
    IF ~body.valid THEN Caught(JsonSyntaxError)
    ELSE IF ~ok THEN Caught(ApiError(body))
    ELSE IF body.hasText THEN body.text
    ELSE EmptyResponse

\* how a settled response counts: 2xx with a text part, 2xx without one, a
\* body that does not parse, or a status that is not 2xx
Outcome(ok, body) ==
    IF ~body.valid THEN "malformed"
    ELSE IF ~ok THEN "status"
    ELSE IF body.hasText THEN "text"
    ELSE "empty"

(* ------------------------------ history -------------------------------- *)

Snapshot ==
    [apiKey |-> apiKey, showApiInput |-> showApiInput, messages |-> messages,
     input |-> input, isTyping |-> isTyping, ncalls |-> Len(calls)]

\* a handler ran: the event and the state it started from
Note(op, call, outcome, text) ==
    last' = [op |-> op, call |-> call, outcome |-> outcome, text |-> text,
             pre |-> Snapshot]

NoSnapshot ==
    [apiKey |-> <<>>, showApiInput |-> TRUE, messages |-> <<>>,
     input |-> <<>>, isTyping |-> FALSE, ncalls |-> 0]

\* an event that runs no handler of the conversation: only its name is kept
Forget(op) ==
    last' = [op |-> op, call |-> 0, outcome |-> "none", text |-> <<>>,
             pre |-> NoSnapshot]

(* ------------------------------ handlers ------------------------------- *)

\* a variant that tests the credential without trimming it
handleSetApiKey_NoTrim ==
    IF apiKey = <<>>
    THEN UNCHANGED <<apiKey, showApiInput, messages, input, isTyping, calls, gateKey>>
    ELSE /\ showApiInput' = FALSE
         /\ messages' = <<greetingMessage>>
         /\ gateKey' = apiKey
         /\ UNCHANGED <<apiKey, input, isTyping, calls>>

\* a variant that closes the gate without the greeting
handleSetApiKey_NoGreeting ==
    IF Trim(apiKey) = <<>>
    THEN UNCHANGED <<apiKey, showApiInput, messages, input, isTyping, calls, gateKey>>
    ELSE /\ showApiInput' = FALSE
         /\ gateKey' = apiKey
         /\ UNCHANGED <<apiKey, messages, input, isTyping, calls>>

\* lines 70-83
handleSetApiKey ==
    IF Trim(apiKey) = <<>>
    THEN UNCHANGED <<apiKey, showApiInput, messages, input, isTyping, calls, gateKey>>
    ELSE /\ showApiInput' = FALSE
         /\ messages' = <<greetingMessage>>
         /\ gateKey' = apiKey
         /\ UNCHANGED <<apiKey, input, isTyping, calls>>

\* a variant that tests the input without trimming it
handleSend_NoTrim ==
    IF input = <<>>
    THEN UNCHANGED <<apiKey, showApiInput, messages, input, isTyping, calls, gateKey>>
    ELSE /\ Len(calls) < MaxSends
         /\ messages' = Append(messages, [role |-> "user", content |-> input])
         /\ input' = <<>>
         /\ isTyping' = TRUE
         /\ calls' = Append(calls, [userMessage |-> input,
                                    request |-> Request(input),
                                    before |-> messages,
                                    pc |-> "fetch"])
         /\ UNCHANGED <<apiKey, showApiInput, gateKey>>

\* lines 143-159: handleSend up to its await
handleSend ==
    IF Trim(input) = <<>>
    THEN UNCHANGED <<apiKey, showApiInput, messages, input, isTyping, calls, gateKey>>
    ELSE /\ Len(calls) < MaxSends
         /\ messages' = Append(messages, [role |-> "user", content |-> input])
         /\ input' = <<>>
         /\ isTyping' = TRUE
         /\ calls' = Append(calls, [userMessage |-> input,
                                    request |-> Request(input),
                                    before |-> messages,
                                    pc |-> "fetch"])
         /\ UNCHANGED <<apiKey, showApiInput, gateKey>>

\* a variant without the finally block
Resume_NoFinally(i, aiResponse) ==
    /\ messages' = Append(messages, [role |-> "assistant", content |-> aiResponse])
    /\ calls' = [calls EXCEPT ![i].pc = "done"]
    /\ UNCHANGED <<apiKey, showApiInput, input, isTyping, gateKey>>

\* a variant that appends to the transcript its closure captured
Resume_StaleMessages(i, aiResponse) ==
    /\ messages' = Append(calls[i].before,
                          [role |-> "assistant", content |-> aiResponse])
    /\ isTyping' = FALSE
    /\ calls' = [calls EXCEPT ![i].pc = "done"]
    /\ UNCHANGED <<apiKey, showApiInput, input, gateKey>>

\* lines 160-165 and 174-175: handleSend from its await to its end
Resume(i, aiResponse) ==
    /\ messages' = Append(messages, [role |-> "assistant", content |-> aiResponse])
    /\ isTyping' = FALSE
    /\ calls' = [calls EXCEPT ![i].pc = "done"]
    /\ UNCHANGED <<apiKey, showApiInput, input, gateKey>>

(* ------------------------------- events -------------------------------- *)

\* line 207: the credential field's onChange
ChangeApiKey(v) ==
    /\ showApiInput
    /\ apiKey' = v
    /\ UNCHANGED <<showApiInput, messages, input, isTyping, calls, gateKey>>
    /\ Forget("setApiKey")

\* lines 208-212: Enter in the credential field
GateKeyPress ==
    /\ showApiInput
    /\ handleSetApiKey
    /\ Note("handleSetApiKey", 0, "none", <<>>)

\* lines 219-221: the gate's button, disabled while the trimmed field is empty
GateClick ==
    /\ showApiInput
    /\ Trim(apiKey) # <<>>
    /\ handleSetApiKey
    /\ Note("handleSetApiKey", 0, "none", <<>>)

\* line 338: the textarea's onChange
ChangeInput(v) ==
    /\ ~showApiInput
    /\ input' = v
    /\ UNCHANGED <<apiKey, showApiInput, messages, isTyping, calls, gateKey>>
    /\ Forget("setInput")

\* lines 179-184 and 339: a key press in the textarea, which is never disabled
handleKeyPress(key, shiftKey) ==
    /\ ~showApiInput
    /\ IF key = "Enter" /\ ~shiftKey
       THEN handleSend /\ Note("handleSend", 0, "none", <<>>)
       ELSE /\ UNCHANGED <<apiKey, showApiInput, messages, input, isTyping, calls, gateKey>>
            /\ Forget("keyPress")

\* lines 345-347: the send button, disabled while the trimmed input is empty or
\* a call is pending
SendClick ==
    /\ ~showApiInput
    /\ ~(Trim(input) = <<>> \/ isTyping)
    /\ handleSend
    /\ Note("handleSend", 0, "none", <<>>)

\* lines 186 and 287: the quick-start prompts are rendered
QuickPromptsShown == ~showApiInput /\ Len(messages) = 0

\* lines 291-299: a quick-start prompt's onClick.  It is no disjunct of Next:
\* QuickPromptsShown holds in no reachable state (C10), so it never fires.
SelectQuickPrompt(prompt) ==
    /\ QuickPromptsShown
    /\ input' = prompt
    /\ UNCHANGED <<apiKey, showApiInput, messages, isTyping, calls, gateKey>>
    /\ Forget("setInput")

\* line 105, fetch rejects (a transport failure): the catch block's string is
\* what callGeminiAPI returns, and handleSend resumes with it
FetchReject(i, error) ==
    /\ calls[i].pc = "fetch"
    /\ Resume(i, Caught(error))
    /\ Note("resume", i, "reject", <<>>)

\* lines 105 and 125-132, fetch resolves with a response whose status is 2xx
\* (ok) or not and response.json() settles with body: handleSend resumes with
\* what callGeminiAPI returns.  No state of the component is read or written
\* between the two awaits, so they are one step.
FetchResolve(i, ok, body) ==
    /\ calls[i].pc = "fetch"
    /\ Resume(i, Answer(ok, body))
    /\ Note("resume", i, Outcome(ok, body), body.text)

(* ---------------------------- specification ---------------------------- *)

Init ==
    /\ apiKey = <<>>
    /\ showApiInput = TRUE
    /\ messages = <<>>
    /\ input = <<>>
    /\ isTyping = FALSE
    /\ calls = <<>>
    /\ gateKey = <<>>
    /\ last = [op |-> "init", call |-> 0, outcome |-> "none", text |-> <<>>,
               pre |-> NoSnapshot]

Next ==
    \/ \E v \in CredentialValues : ChangeApiKey(v)
    \/ GateKeyPress
    \/ GateClick
    \/ \E v \in InputValues : ChangeInput(v)
    \/ \E shiftKey \in BOOLEAN : handleKeyPress("Enter", shiftKey)
    \/ SendClick
    \/ \E i \in 1..Len(calls), error \in Thrown : FetchReject(i, error)
    \/ \E i \in 1..Len(calls), ok \in BOOLEAN, body \in Bodies : FetchResolve(i, ok, body)

Spec == Init /\ [][Next]_vars

(* ------------------------------ properties ----------------------------- *)

IsPrefix(s, t) == Len(s) <= Len(t) /\ SubSeq(t, 1, Len(s)) = s

\* the calls whose fetch has not settled
Outstanding == {i \in 1..Len(calls) : calls[i].pc = "fetch"}

\* a turn the catch block of callGeminiAPI wrote
IsWarningTurn(m) ==
    /\ m.role = "assistant"
    /\ m.content # <<>>
    /\ m.content[1] = WarningPrefix
    /\ m.content[Len(m.content)] = CheckKeyHint

Failures == {"reject", "status", "malformed"}

\* C1: at most one call is in flight, and a handleSend that starts while
\* isTyping is true appends no turn and issues no call.
C1_OneCallInFlight ==
    /\ Cardinality(Outstanding) <= 1
    /\ (last.op = "handleSend" /\ last.pre.isTyping
          => messages = last.pre.messages /\ Len(calls) = last.pre.ncalls)

\* C2: isTyping is true exactly in the states in which some call is
\* outstanding.
C2_PendingIffOutstanding == isTyping <=> (Outstanding # {})

\* C3: when a call whose response is 2xx with a text part completes, the
\* transcript is the transcript from before its submit, then the user turn,
\* then the assistant turn with the response's text.
C3_SuccessAppendsTwoTurns ==
    last.op = "resume" /\ last.outcome = "text"
      => messages = calls[last.call].before
                    \o << [role |-> "user", content |-> calls[last.call].userMessage],
                          [role |-> "assistant", content |-> last.text] >>

\* C4: a handleSend that starts with an empty or whitespace-only input
\* changes nothing: transcript, isTyping, input, and the calls issued.
C4_BlankSubmitIsNoOp ==
    last.op = "handleSend" /\ Trim(last.pre.input) = <<>>
      => /\ messages = last.pre.messages
         /\ isTyping = last.pre.isTyping
         /\ input = last.pre.input
         /\ Len(calls) = last.pre.ncalls

C4_Witness ==
    /\ last.op = "handleSend"
    /\ last.pre.input = <<" ", "\n">>
    /\ Len(last.pre.messages) >= 3

\* C5: handleSetApiKey with an empty trimmed credential changes nothing and
\* leaves the gate open; otherwise it closes the gate and the transcript is the
\* greeting alone.  The gate is closed only after a submit of a credential
\* whose trimmed value is not empty.
C5_GateSubmit ==
    /\ last.op = "handleSetApiKey" =>
          IF Trim(last.pre.apiKey) = <<>>
          THEN /\ showApiInput
               /\ Snapshot = last.pre
               /\ calls = <<>>
          ELSE /\ ~showApiInput
               /\ messages = << [role |-> "assistant",
                                 content |-> greetingMessage.content] >>
               /\ apiKey = last.pre.apiKey
    /\ ~showApiInput => Trim(gateKey) # <<>> /\ apiKey = gateKey

C5_Witness ==
    /\ last.op = "handleSetApiKey"
    /\ last.pre.apiKey = <<" ", "KEY2">>
    /\ ~showApiInput
    /\ Len(messages) = 1

\* C6: a call that fails (fetch rejects, the status is not 2xx, or the body
\* does not parse) appends exactly one assistant turn with a warning and
\* leaves isTyping false, the credential as set at the gate and the gate
\* closed; a handleSend of non-empty text that follows a warning turn issues a
\* new call with that credential.
C6_FailureRecovered ==
    /\ last.op = "resume" /\ last.outcome \in Failures =>
          /\ Len(messages) = Len(last.pre.messages) + 1
          /\ IsPrefix(last.pre.messages, messages)
          /\ IsWarningTurn(messages[Len(messages)])
          /\ ~isTyping
          /\ apiKey = gateKey
          /\ ~showApiInput
    /\ ( /\ last.op = "handleSend"
         /\ Trim(last.pre.input) # <<>>
         /\ IsWarningTurn(last.pre.messages[Len(last.pre.messages)]) ) =>
          /\ Len(calls) = last.pre.ncalls + 1
          /\ calls[Len(calls)].pc = "fetch"
          /\ calls[Len(calls)].userMessage = last.pre.input
          /\ calls[Len(calls)].request.key = gateKey

C6_Witness ==
    /\ last.op = "handleSend"
    /\ Trim(last.pre.input) # <<>>
    /\ IsWarningTurn(last.pre.messages[Len(last.pre.messages)])
    /\ ~last.pre.isTyping
    /\ Outstanding = {Len(calls)}

\* C7: in every step the transcript before the step is a prefix of the
\* transcript after it.
C7_AppendOnly == [][IsPrefix(messages, messages')]_vars

C7_Witness ==
    /\ last.op = "resume"
    /\ Len(messages) = 5
    /\ Outstanding = {}

\* C8: the request of every call is built from the submitted text and the
\* credential alone: its prompt is the preamble, the user's text and the
\* closing marker, and two calls with the same text carry the same request
\* whatever the transcript was when they were issued.
C8_RequestFromLatestTurnOnly ==
    \A i \in 1..Len(calls) :
        /\ calls[i].userMessage = messages[Len(calls[i].before) + 1].content
        /\ calls[i].request.text =
              systemPrompt \o <<"\n\nUser: ">> \o calls[i].userMessage
                           \o <<"\n\nAssistant:">>
        /\ calls[i].request.key = gateKey
        /\ \A j \in 1..Len(calls) :
              calls[j].userMessage = calls[i].userMessage
                 => calls[j].request = calls[i].request

C8_Witness ==
    /\ Len(calls) = 2
    /\ calls[1].userMessage = calls[2].userMessage
    /\ calls[1].before # calls[2].before

\* C10: on the chat surface the transcript is never empty and starts with the
\* greeting, so the quick-start prompts are never rendered and selecting one
\* is never enabled.
C10_ChatSurfaceStartsWithGreeting ==
    /\ ~showApiInput => messages # <<>> /\ messages[1] = greetingMessage
    /\ ~QuickPromptsShown
    /\ ~ENABLED (\E prompt \in QUICK_PROMPTS : SelectQuickPrompt(prompt))

C10_Witness ==
    /\ ~showApiInput
    /\ messages = <<greetingMessage>>
    /\ last.op = "setInput"

====
